---- MODULE Spec2Model ----
(***************************************************************************)
(* A model of the pyodide WebAssembly runtime layer: value conversion      *)
(* (conversion.rs), tables (table.rs), instantiation (instance.rs) and the *)
(* store (store.rs).  Host objects reached through the Python/JavaScript   *)
(* bridge are modelled by what the WebAssembly JavaScript API does.        *)
(***************************************************************************)
EXTENDS Integers, Sequences, FiniteSets, TLC

VARIABLES
    conv,      \* conversion layer: the value/object being converted and the result
    tbl,       \* the Table handle and the host WebAssembly.Table behind it
    tret,      \* outcome of the last Table operation
    icall,     \* arguments and host behaviour of the last Instance::new
    iret,      \* outcome of the last Instance::new
    heap,      \* heap cells holding StoreInner objects (or Freed)
    store,     \* the Store handle (raw pointer to the inner object)
    closures,  \* allocation state of native closures registered by Func::new
    hostFuncs, \* host-side callable handles (weak back-reference to their store)
    frames,    \* stack of active call frames (re-entrant host calls)
    lastWrite, \* the most recent write to the user state and the depth it came from
    sret,      \* outcome of the last store-level operation
    externRefs \* the ExternRef handles made so far

vars == <<conv, tbl, tret, icall, iret, heap, store, closures, hostFuncs,
          frames, lastWrite, sret, externRefs>>

convVars  == <<conv>>
tableVars == <<tbl, tret>>
instVars  == <<icall, iret>>
storeVars == <<heap, store, closures, hostFuncs, frames, lastWrite, sret,
               externRefs>>

-----------------------------------------------------------------------------
(* Bounds of the model.                                                    *)

\* width in bits of the scaled-down i32
I32Bits == 3
\* width in bits of the scaled-down i64
I64Bits == 4
\* Python integers range over -PyIntMax..PyIntMax
PyIntMax == 9
\* finite f64 values are the integers -F64Max..F64Max
F64Max == 6
\* finite f32 values are the multiples of F32Step in -F32Max..F32Max
F32Max == 4
F32Step == 2
\* number of distinct functions / extern references passed around
MaxRef == 2

RECURSIVE Pow2(_)
Pow2(n) == IF n = 0 THEN 1 ELSE 2 * Pow2(n - 1)

I32Min == -Pow2(I32Bits - 1)
I32Max == Pow2(I32Bits - 1) - 1
I64Min == -Pow2(I64Bits - 1)
I64Max == Pow2(I64Bits - 1) - 1

Abs(x) == IF x < 0 THEN -x ELSE x

\* floats: finite values are integers, the three special values lie outside
PosInf == F64Max + 1
NegInf == -(F64Max + 1)
NaN    == F64Max + 2
IsSpecial(x) == x \in {PosInf, NegInf, NaN}

F32Largest == (F32Max \div F32Step) * F32Step
F32Finite == {x \in -F32Max..F32Max : x % F32Step = 0}
F32Values == F32Finite \cup {PosInf, NegInf, NaN}
F64Values == (-F64Max..F64Max) \cup {PosInf, NegInf, NaN}

\* f32 -> f64 (`f32::to_object` widens to a Python float): exact
Widen(x) == x

\* f64 -> f32 (`f64 as f32`): round to nearest, ties to even, overflow to infinity
Narrow(x) ==
    IF IsSpecial(x) THEN x
    ELSE IF 2 * Abs(x) >= 2 * F32Largest + F32Step
         THEN (IF x < 0 THEN NegInf ELSE PosInf)
    ELSE LET q == x \div F32Step
             r == x % F32Step
         IN  IF 2 * r < F32Step THEN q * F32Step
             ELSE IF 2 * r > F32Step THEN (q + 1) * F32Step
             ELSE IF q % 2 = 0 THEN q * F32Step ELSE (q + 1) * F32Step

-----------------------------------------------------------------------------
(* Values, value types and Python objects.                                 *)

ValueTypes == {"I32", "I64", "F32", "F64", "FuncRef", "ExternRef"}
NumericTypes == {"I32", "I64", "F32", "F64"}

\* Value<Engine>: for FuncRef/ExternRef the payload 0 is None, n > 0 is Some(n)
Val(tag, v) == [tag |-> tag, v |-> v]

Values ==
    {Val("I32", n) : n \in I32Min..I32Max}
    \cup {Val("I64", n) : n \in I64Min..I64Max}
    \cup {Val("F32", x) : x \in F32Values}
    \cup {Val("F64", x) : x \in F64Values}
    \cup {Val("FuncRef", r) : r \in 0..MaxRef}
    \cup {Val("ExternRef", r) : r \in 0..MaxRef}

\* Python objects seen through the bridge
Py(t, v) == [t |-> t, v |-> v]
PyNone == Py("None", 0)

PyObjects ==
    {Py("int", n) : n \in -PyIntMax..PyIntMax}
    \cup {Py("float", x) : x \in F64Values}
    \cup {PyNone, Py("str", 0)}
    \cup {Py("JsFunction", r) : r \in 1..MaxRef}
    \cup {Py("JsToken", r) : r \in 1..MaxRef}

\* results of fallible operations
Ok(v)  == [st |-> "ok", val |-> v, err |-> "none"]
Err(e, dflt) == [st |-> "err", val |-> dflt, err |-> e]

NoValue == Val("none", 0)

\* Func::to_py: the host callable carried by the Func
FuncToPy(f) == Py("JsFunction", f)

\* ExternRef::to_py: the opaque host token stored for the reference
ExternRefToPy(r) == Py("JsToken", r)

\* a plausible slip: 64-bit integers pushed through the 32-bit path
Value_to_py_Truncating(value) ==
    CASE value.tag = "I32" -> Py("int", value.v)
      [] value.tag = "I64" ->
            Py("int", ((value.v - I32Min) % Pow2(I32Bits)) + I32Min)
      [] value.tag = "F32" -> Py("float", Widen(value.v))
      [] value.tag = "F64" -> Py("float", value.v)
      [] value.tag = "FuncRef" ->
            IF value.v = 0 THEN PyNone ELSE FuncToPy(value.v)
      [] value.tag = "ExternRef" ->
            IF value.v = 0 THEN PyNone ELSE ExternRefToPy(value.v)

\* impl ToPy for Value<Engine>
Value_to_py(value) ==
    CASE value.tag = "I32" -> Py("int", value.v)
      [] value.tag = "I64" -> Py("int", value.v)
      [] value.tag = "F32" -> Py("float", Widen(value.v))
      [] value.tag = "F64" -> Py("float", value.v)
      [] value.tag = "FuncRef" ->
            IF value.v = 0 THEN PyNone ELSE FuncToPy(value.v)
      [] value.tag = "ExternRef" ->
            IF value.v = 0 THEN PyNone ELSE ExternRefToPy(value.v)

\* ValueExt::ty
ty(value) == value.tag

\* `value.extract()` at an integer type with range lo..hi
ExtractInt(obj, lo, hi) ==
    IF obj.t # "int" THEN Err("TypeError", 0)
    ELSE IF obj.v < lo \/ obj.v > hi THEN Err("OverflowError", 0)
    ELSE Ok(obj.v)

\* `value.extract()` at f64: Python floats as they are, Python ints converted
ExtractF64(obj) ==
    IF obj.t = "float" THEN Ok(obj.v)
    ELSE IF obj.t = "int"
         THEN (IF Abs(obj.v) > F64Max THEN Err("OverflowError", 0) ELSE Ok(obj.v))
    ELSE Err("TypeError", 0)

\* `value.extract()` at f32: extraction at f64 followed by `as f32`
ExtractF32(obj) ==
    LET r == ExtractF64(obj) IN IF r.st = "ok" THEN Ok(Narrow(r.val)) ELSE r

\* Whether `value.extract()` at the numeric type t succeeds
Extractable(obj, t) ==
    CASE t = "I32" -> ExtractInt(obj, I32Min, I32Max).st = "ok"
      [] t = "I64" -> ExtractInt(obj, I64Min, I64Max).st = "ok"
      [] t = "F32" -> ExtractF32(obj).st = "ok"
      [] t = "F64" -> ExtractF64(obj).st = "ok"

WrapNumeric(tag, r) ==
    IF r.st = "ok" THEN Ok(Val(tag, r.val)) ELSE Err(r.err, NoValue)

ConversionNotPermitted ==
    Err("conversion to a function or extern outside of a module not permitted",
        NoValue)

\* a plausible slip: null converted to a null reference instead of refused
from_py_typed_NullRef(value, t) ==
    CASE t = "I32" -> WrapNumeric("I32", ExtractInt(value, I32Min, I32Max))
      [] t = "I64" -> WrapNumeric("I64", ExtractInt(value, I64Min, I64Max))
      [] t = "F32" -> WrapNumeric("F32", ExtractF32(value))
      [] t = "F64" -> WrapNumeric("F64", ExtractF64(value))
      [] t \in {"FuncRef", "ExternRef"} ->
            IF value = PyNone THEN Ok(Val(t, 0)) ELSE ConversionNotPermitted

\* ValueExt::from_py_typed
from_py_typed(value, t) ==
    CASE t = "I32" -> WrapNumeric("I32", ExtractInt(value, I32Min, I32Max))
      [] t = "I64" -> WrapNumeric("I64", ExtractInt(value, I64Min, I64Max))
      [] t = "F32" -> WrapNumeric("F32", ExtractF32(value))
      [] t = "F64" -> WrapNumeric("F64", ExtractF64(value))
      [] t \in {"FuncRef", "ExternRef"} -> ConversionNotPermitted

\* ValueTypeExt::as_js_descriptor
as_js_descriptor(t) ==
    CASE t = "I32" -> "i32"
      [] t = "I64" -> "i64"
      [] t = "F32" -> "f32"
      [] t = "F64" -> "f64"
      [] t = "FuncRef" -> "anyfunc"
      [] t = "ExternRef" -> "externref"

-----------------------------------------------------------------------------
(* The conversion layer as a state machine: a value is converted to a      *)
(* Python object, or an object arrives from the host, and the object is    *)
(* then converted back against a declared type.                            *)

NoConv == [op |-> "none", src |-> NoValue, obj |-> PyNone, ty |-> "none",
           res |-> Err("none", NoValue)]

\* Value::to_py applied to a value
ConvToPy(v) ==
    /\ conv' = [op |-> "to_py", src |-> v, obj |-> Value_to_py(v),
                ty |-> "none", res |-> Err("none", NoValue)]
    /\ UNCHANGED <<tableVars, instVars, storeVars>>

\* an object handed over by the host
ConvHostObject(o) ==
    /\ conv' = [op |-> "host", src |-> NoValue, obj |-> o,
                ty |-> "none", res |-> Err("none", NoValue)]
    /\ UNCHANGED <<tableVars, instVars, storeVars>>

\* Value::from_py_typed applied to the current object
ConvFromPyTyped(t) ==
    /\ conv.op \in {"to_py", "host"}
    /\ conv' = [conv EXCEPT !.op = "from_py_typed", !.ty = t,
                            !.res = from_py_typed(conv.obj, t)]
    /\ UNCHANGED <<tableVars, instVars, storeVars>>

ConvNext ==
    \/ \E v \in Values : ConvToPy(v)
    \/ \E o \in PyObjects : ConvHostObject(o)
    \/ \E t \in ValueTypes : ConvFromPyTyped(t)

-----------------------------------------------------------------------------
(* Tables.                                                                 *)

\* longest table the model lets the host hold
MaxTableLen == 3
\* largest declared minimum of a table type
MaxTableMin == 2
\* largest delta passed to Table::grow
MaxDelta == 2

\* TableType::maximum() == None
NoMax == -1

\* TableType {element, min, max}
TableTypes ==
    [element : {"FuncRef", "ExternRef", "I32"},
     min : 0..MaxTableMin,
     max : {NoMax} \cup 0..MaxTableLen]

\* values handed to Table::new / grow / set
TableInputs ==
    {Val("FuncRef", 0), Val("FuncRef", 1), Val("ExternRef", 1), Val("I32", 1)}

\* the host's ToWebAssemblyValue(value, elementType) accepts the object
HostAccepts(element, obj) ==
    CASE element = "FuncRef" -> obj.t \in {"None", "JsFunction"}
      [] element = "ExternRef" -> TRUE
      [] OTHER -> FALSE

Repeat(x, n) == [i \in 1..n |-> x]

NoHostTable == [elems |-> <<>>, max |-> NoMax, element |-> "none"]

\* outcome of a host call: the exception raised (or "none"), the value
\* returned and the host table afterwards
HostRes(exc, val, host) == [exc |-> exc, val |-> val, host |-> host]

\* new WebAssembly.Table({element, initial, maximum}, init)
HostTableNew(element, initial, maximum, init) ==
    IF element \notin {"anyfunc", "externref"}
    THEN HostRes("TypeError", PyNone, NoHostTable)
    ELSE IF maximum # NoMax /\ maximum < initial
    THEN HostRes("RangeError", PyNone, NoHostTable)
    ELSE LET et == IF element = "anyfunc" THEN "FuncRef" ELSE "ExternRef" IN
         IF ~HostAccepts(et, init)
         THEN HostRes("TypeError", PyNone, NoHostTable)
         ELSE HostRes("none", PyNone,
                      [elems |-> Repeat(init, initial), max |-> maximum,
                       element |-> et])

\* WebAssembly.Table.prototype.length
HostTableLength(host) == Len(host.elems)

\* WebAssembly.Table.prototype.grow(delta, init)
HostTableGrow(host, delta, init) ==
    IF ~HostAccepts(host.element, init)
    THEN HostRes("TypeError", PyNone, host)
    ELSE IF host.max # NoMax /\ Len(host.elems) + delta > host.max
    THEN HostRes("RangeError", PyNone, host)
    ELSE HostRes("none", Py("int", Len(host.elems)),
                 [host EXCEPT !.elems = host.elems \o Repeat(init, delta)])

\* WebAssembly.Table.prototype.get(index)
HostTableGet(host, index) ==
    IF index >= Len(host.elems)
    THEN HostRes("RangeError", PyNone, host)
    ELSE HostRes("none", host.elems[index + 1], host)

\* WebAssembly.Table.prototype.set(index, value)
HostTableSet(host, index, value) ==
    IF ~HostAccepts(host.element, value)
    THEN HostRes("TypeError", PyNone, host)
    ELSE IF index >= Len(host.elems)
    THEN HostRes("RangeError", PyNone, host)
    ELSE HostRes("none", PyNone, [host EXCEPT !.elems[index + 1] = value])

\* Option<Value<Engine>>
None == [some |-> FALSE, v |-> NoValue]
Some(v) == [some |-> TRUE, v |-> v]

\* outcome of a Table operation: st is "ok", "err" (an error value is
\* returned) or "panic" (the call unwinds)
TRes(st, n, opt, err, host) ==
    [st |-> st, n |-> n, opt |-> opt, err |-> err, host |-> host]

\* WasmTable::new
Table_new(t, init) ==
    LET r == HostTableNew(as_js_descriptor(t.element), t.min, t.max,
                          Value_to_py(init))
    IN  IF r.exc # "none" THEN TRes("err", 0, None, r.exc, NoHostTable)
        ELSE TRes("ok", 0, None, "none", r.host)

\* WasmTable::size
Table_size(host) == TRes("ok", HostTableLength(host), None, "none", host)

\* a plausible slip: the delta is returned instead of the previous length
Table_grow_ReturnsDelta(host, delta, init) ==
    LET r == HostTableGrow(host, delta, Value_to_py(init))
    IN  IF r.exc # "none" THEN TRes("err", 0, None, r.exc, r.host)
        ELSE TRes("ok", delta, None, "none", r.host)

\* WasmTable::grow
Table_grow(host, delta, init) ==
    LET r == HostTableGrow(host, delta, Value_to_py(init))
    IN  IF r.exc # "none" THEN TRes("err", 0, None, r.exc, r.host)
        ELSE TRes("ok", r.val.v, None, "none", r.host)

\* a plausible slip: the host's exception is unwrapped instead of mapped to None
Table_get_Unwrap(host, element, index) ==
    LET r == HostTableGet(host, index)
    IN  IF r.exc # "none" THEN TRes("panic", 0, None, r.exc, r.host)
        ELSE LET c == from_py_typed(r.val, element)
             IN  IF c.st = "ok" THEN TRes("ok", 0, Some(c.val), "none", r.host)
                 ELSE TRes("panic", 0, None, c.err, r.host)

\* WasmTable::get
Table_get(host, element, index) ==
    LET r == HostTableGet(host, index)
    IN  IF r.exc # "none" THEN TRes("ok", 0, None, "none", r.host)
        ELSE LET c == from_py_typed(r.val, element)
             IN  IF c.st = "ok" THEN TRes("ok", 0, Some(c.val), "none", r.host)
                 ELSE TRes("panic", 0, None, c.err, r.host)

\* a plausible slip: the host's exception is discarded and Ok(()) returned
Table_set_Swallow(host, index, value) ==
    LET r == HostTableSet(host, index, Value_to_py(value))
    IN  TRes("ok", 0, None, "none", r.host)

\* WasmTable::set
Table_set(host, index, value) ==
    LET r == HostTableSet(host, index, Value_to_py(value))
    IN  IF r.exc # "none" THEN TRes("err", 0, None, r.exc, r.host)
        ELSE TRes("ok", 0, None, "none", r.host)

NoTable == [live |-> FALSE, ty |-> [element |-> "none", min |-> 0, max |-> NoMax],
            host |-> NoHostTable]

\* no host object / no declared type: the operation took none
NoObject == [class |-> "none", len |-> 0]
NoDecl == [element |-> "none", min |-> 0, max |-> NoMax]

NoTRet == [op |-> "none", index |-> 0, delta |-> 0, value |-> NoValue,
           obj |-> NoObject, decl |-> NoDecl,
           st |-> "none", n |-> 0, opt |-> None, err |-> "none"]

TRet(op, index, delta, value, r) ==
    [op |-> op, index |-> index, delta |-> delta, value |-> value,
     obj |-> NoObject, decl |-> NoDecl,
     st |-> r.st, n |-> r.n, opt |-> r.opt, err |-> r.err]

TableNew(t, init) ==
    LET r == Table_new(t, init) IN
    /\ tbl' = IF r.st = "ok" THEN [live |-> TRUE, ty |-> t, host |-> r.host]
              ELSE tbl
    /\ tret' = TRet("new", 0, 0, init, r)
    /\ UNCHANGED <<convVars, instVars, storeVars>>

TableSize ==
    LET r == Table_size(tbl.host) IN
    /\ tbl.live
    /\ tbl' = [tbl EXCEPT !.host = r.host]
    /\ tret' = TRet("size", 0, 0, NoValue, r)
    /\ UNCHANGED <<convVars, instVars, storeVars>>

TableGrow(delta, init) ==
    LET r == Table_grow(tbl.host, delta, init) IN
    /\ tbl.live
    /\ tbl.host.max # NoMax \/ Len(tbl.host.elems) + delta <= MaxTableLen
    /\ tbl' = [tbl EXCEPT !.host = r.host]
    /\ tret' = TRet("grow", 0, delta, init, r)
    /\ UNCHANGED <<convVars, instVars, storeVars>>

TableGet(index) ==
    LET r == Table_get(tbl.host, tbl.ty.element, index) IN
    /\ tbl.live
    /\ tbl' = [tbl EXCEPT !.host = r.host]
    /\ tret' = TRet("get", index, 0, NoValue, r)
    /\ UNCHANGED <<convVars, instVars, storeVars>>

TableSet(index, value) ==
    LET r == Table_set(tbl.host, index, value) IN
    /\ tbl.live
    /\ tbl' = [tbl EXCEPT !.host = r.host]
    /\ tret' = TRet("set", index, 0, value, r)
    /\ UNCHANGED <<convVars, instVars, storeVars>>

-----------------------------------------------------------------------------
(* The store's inner object.                                               *)

\* user states T
DataVals == {0, 1}

\* StoreInner<T>: `funcs` holds the closure records of host-defined functions,
\* `externs` the payloads of the ExternRefs made in the store; `frees` counts
\* the deallocations of the cell
StoreInner(instances, data, funcs) ==
    [state |-> "live", instances |-> instances, data |-> data, funcs |-> funcs,
     externs |-> <<>>, frees |-> 0]

Unallocated ==
    [state |-> "unalloc", instances |-> <<>>, data |-> 0, funcs |-> {},
     externs |-> <<>>, frees |-> 0]
Freed ==
    [state |-> "freed", instances |-> <<>>, data |-> 0, funcs |-> {},
     externs |-> <<>>, frees |-> 1]

\* drop of a Box<StoreInner<T>>: the inner object goes with all it owns
Dealloc(cell) == [Freed EXCEPT !.frees = cell.frees + 1]

\* StoreInner::insert_instance: Slab::insert, the key is the slot's index
insert_instance(inner, instance) ==
    [inner |-> [inner EXCEPT !.instances = Append(inner.instances, instance)],
     id |-> Len(inner.instances)]

-----------------------------------------------------------------------------
(* Instances.                                                              *)

\* longest imports collection handed to Instance::new
MaxImports == 2

ExportNames == {"a", "b"}
\* the (module_name, item_name) pairs imports are defined under
ImportKeys ==
    {[module |-> "env", name |-> "f"], [module |-> "env", name |-> "g"],
     [module |-> "m", name |-> "f"]}

NoTableType == [element |-> "none", min |-> 0, max |-> NoMax]

\* ExternType: Func(signature) | Global(type) | Memory(type) | Table(type)
ExternTypes ==
    {[kind |-> "Func", sig |-> 1, tt |-> NoTableType],
     [kind |-> "Global", sig |-> 0, tt |-> NoTableType],
     [kind |-> "Memory", sig |-> 1, tt |-> NoTableType],
     [kind |-> "Table", sig |-> 0,
      tt |-> [element |-> "FuncRef", min |-> 1, max |-> NoMax]]}

\* objects the host reports as exports: their JavaScript class and, for
\* tables and memories, their current length / page count
HostVal(class, len) == [class |-> class, len |-> len]
HostValues ==
    {HostVal("Function", 0), HostVal("Global", 0), HostVal("Memory", 1),
     HostVal("Table", 0), HostVal("Table", 1)}

\* instanceof(object, WebAssembly.<class>)
instanceof(object, class) == object.class = class

\* Extern<Engine> made from an export
Extern(kind, t, handle) == [kind |-> kind, ty |-> t, handle |-> handle]
NoExtern == Extern("none", [kind |-> "none", sig |-> 0, tt |-> NoTableType],
                   HostVal("none", 0))

XOk(e) == [st |-> "ok", ext |-> e, err |-> "none"]
XErr(e) == [st |-> "err", ext |-> NoExtern, err |-> e]
XPanic(e) == [st |-> "panic", ext |-> NoExtern, err |-> e]

\* Func::from_exported_function: keeps the host callable with its signature
from_exported_function(value, signature) ==
    XOk(Extern("Func", signature, value))

\* Global::from_exported_global
from_exported_global(value, signature) ==
    IF ~instanceof(value, "Global") THEN XErr("expected WebAssembly.Global")
    ELSE XOk(Extern("Global", signature, value))

\* Memory::from_exported_memory (t.sig is the declared minimum in pages)
from_exported_memory(value, t) ==
    IF ~instanceof(value, "Memory") THEN XErr("expected WebAssembly.Memory")
    ELSE IF ~(value.len >= t.sig) THEN XPanic("assertion failed")
    ELSE XOk(Extern("Memory", t, value))

\* a plausible slip: the length is not compared with the declared minimum
from_exported_table_NoAssert(value, t) ==
    IF ~instanceof(value, "Table") THEN XErr("expected WebAssembly.Table")
    ELSE IF t.tt.element # "FuncRef" THEN XPanic("assertion failed")
    ELSE XOk(Extern("Table", t, value))

\* Table::from_exported_table
from_exported_table(value, t) ==
    IF ~instanceof(value, "Table") THEN XErr("expected WebAssembly.Table")
    ELSE IF ~(value.len >= t.tt.min) THEN XPanic("assertion failed")
    ELSE IF t.tt.element # "FuncRef" THEN XPanic("assertion failed")
    ELSE XOk(Extern("Table", t, value))

\* host objects an instance may export under a name declared as a table
ExportedClasses == {"Table", "Memory", "Function"}

\* the table the host holds for an export of the module: its maximum is the
\* declared one, its elements are null function references
ExportedTable(len, t) ==
    [elems |-> Repeat(PyNone, len), max |-> t.max, element |-> "FuncRef"]

\* Table::from_exported_table applied to an exported host object and the
\* table type the module declares for it
TableFromExported(class, len, t) ==
    LET value == HostVal(class, IF class = "Table" THEN len ELSE 0)
        r == from_exported_table(value, [kind |-> "Table", sig |-> 0, tt |-> t])
    IN  /\ t.max = NoMax \/ len <= t.max
        /\ tbl' = IF r.st = "ok"
                  THEN [live |-> TRUE, ty |-> t, host |-> ExportedTable(len, t)]
                  ELSE tbl
        /\ tret' = [TRet("from_exported_table", 0, 0, NoValue,
                         TRes(r.st, 0, None, r.err, NoHostTable))
                        EXCEPT !.obj = value, !.decl = t]
        /\ UNCHANGED <<convVars, instVars, storeVars>>

TableNext ==
    \/ /\ ~tbl.live    \* one table per run
       /\ \E t \in TableTypes, init \in TableInputs : TableNew(t, init)
    \/ /\ ~tbl.live
       /\ \E class \in ExportedClasses, len \in 0..MaxTableLen, t \in TableTypes :
             TableFromExported(class, len, t)
    \/ TableSize
    \/ \E delta \in 0..MaxDelta, init \in TableInputs : TableGrow(delta, init)
    \/ \E index \in 0..MaxTableLen : TableGet(index)
    \/ \E index \in 0..MaxTableLen, value \in TableInputs : TableSet(index, value)

\* a plausible slip: two arms of the dispatch exchanged
ConvertExport_Swapped(value, signature) ==
    CASE signature.kind = "Func" -> from_exported_function(value, signature)
      [] signature.kind = "Global" -> from_exported_memory(value, signature)
      [] signature.kind = "Memory" -> from_exported_global(value, signature)
      [] signature.kind = "Table" -> from_exported_table(value, signature)

\* process_exports: the match on the export's declared signature
ConvertExport(value, signature) ==
    CASE signature.kind = "Func" -> from_exported_function(value, signature)
      [] signature.kind = "Global" -> from_exported_global(value, signature)
      [] signature.kind = "Memory" -> from_exported_memory(value, signature)
      [] signature.kind = "Table" -> from_exported_table(value, signature)

EmptyMap == [n \in {} |-> NoExtern]
MapPut(m, k, v) == [n \in DOMAIN m \cup {k} |-> IF n = k THEN v ELSE m[n]]

PRes(st, exports, err) == [st |-> st, exports |-> exports, err |-> err]

\* a plausible slip: an export that fails to convert is left out
RECURSIVE ProcessEntries_SkipFailed(_, _, _)
ProcessEntries_SkipFailed(entries, parsed, acc) ==
    IF entries = <<>> THEN PRes("ok", acc, "none")
    ELSE LET name == Head(entries).name
             value == Head(entries).value
         IN  IF name \notin DOMAIN parsed
             THEN PRes("panic", EmptyMap, "export signature")
             ELSE LET c == ConvertExport(value, parsed[name])
                  IN  IF c.st = "panic" THEN PRes("panic", EmptyMap, c.err)
                      ELSE IF c.st = "err"
                      THEN ProcessEntries_SkipFailed(Tail(entries), parsed, acc)
                      ELSE ProcessEntries_SkipFailed(Tail(entries), parsed,
                                                     MapPut(acc, name, c.ext))

\* process_exports: the entries in the order the host yields them, collected
\* into a map; the first failure ends the iteration
RECURSIVE ProcessEntries(_, _, _)
ProcessEntries(entries, parsed, acc) ==
    IF entries = <<>> THEN PRes("ok", acc, "none")
    ELSE LET name == Head(entries).name
             value == Head(entries).value
         IN  IF name \notin DOMAIN parsed
             THEN PRes("panic", EmptyMap, "export signature")
             ELSE LET c == ConvertExport(value, parsed[name])
                  IN  IF c.st # "ok" THEN PRes(c.st, EmptyMap, c.err)
                      ELSE ProcessEntries(Tail(entries), parsed,
                                          MapPut(acc, name, c.ext))

\* a plausible slip: failing exports are filtered out instead of ending the call
process_exports_SkipFailed(host, parsed) ==
    IF host.raise = "entries" THEN PRes("err", EmptyMap, "HostError")
    ELSE ProcessEntries_SkipFailed(host.entries, parsed, EmptyMap)

\* process_exports
process_exports(host, parsed) ==
    IF host.raise = "entries" THEN PRes("err", EmptyMap, "HostError")
    ELSE ProcessEntries(host.entries, parsed, EmptyMap)

\* Extern<Engine> given as an import
ImportExterns == {[kind |-> "Func", id |-> 1], [kind |-> "Table", id |-> 1]}

\* impl ToPy for Extern<Engine>
Extern_to_py(e) ==
    CASE e.kind = "Global" -> Py("JsGlobal", e.id)
      [] e.kind = "Table" -> Py("JsTable", e.id)
      [] e.kind = "Memory" -> Py("JsMemory", e.id)
      [] e.kind = "Func" -> FuncToPy(e.id)

EmptyDict == [n \in {} |-> PyNone]
EmptyGroups == [m \in {} |-> <<>>]

\* the fold of create_imports_object: BTreeMap<String, Vec<(name, import)>>
RECURSIVE GroupImports(_, _)
GroupImports(imports, acc) ==
    IF imports = <<>> THEN acc
    ELSE LET i == Head(imports)
             item == [name |-> i.name, import |-> Extern_to_py(i.ext)]
             old == IF i.module \in DOMAIN acc THEN acc[i.module] ELSE <<>>
         IN  GroupImports(Tail(imports),
                 [m \in DOMAIN acc \cup {i.module} |->
                     IF m = i.module THEN Append(old, item) ELSE acc[m]])

\* IntoPyDict for a Vec of (name, import): set_item in order, later wins
RECURSIVE IntoPyDict(_, _)
IntoPyDict(items, dict) ==
    IF items = <<>> THEN dict
    ELSE IntoPyDict(Tail(items),
             [n \in DOMAIN dict \cup {Head(items).name} |->
                 IF n = Head(items).name THEN Head(items).import ELSE dict[n]])

\* create_imports_object
create_imports_object(imports) ==
    LET groups == GroupImports(imports, EmptyGroups)
    IN  [m \in DOMAIN groups |-> IntoPyDict(groups[m], EmptyDict)]

NoInstance == [live |-> FALSE, handle |-> 0, exports |-> EmptyMap]
EmptyObject == [m \in {} |-> EmptyDict]

IRes(st, instance, err, ctor, obj, inner) ==
    [st |-> st, instance |-> instance, err |-> err, ctorCalled |-> ctor,
     importsObject |-> obj, inner |-> inner]

\* WasmInstance::new; `inner` is the store behind the `_store` argument and
\* host.raise names the bridge call the host lets fail, if any
Instance_new(inner, parsed, imports, host) ==
    LET imports_object == create_imports_object(imports) IN
    IF host.raise = "ctor"
    THEN IRes("err", NoInstance, "HostError", TRUE, imports_object, inner)
    ELSE IF host.raise = "exports"
    THEN IRes("err", NoInstance, "HostError", TRUE, imports_object, inner)
    ELSE LET exports == process_exports(host, parsed) IN
         IF exports.st # "ok"
         THEN IRes(exports.st, NoInstance, exports.err, TRUE, imports_object,
                   inner)
         ELSE IRes("ok", [live |-> TRUE, handle |-> 1, exports |-> exports.exports],
                   "none", TRUE, imports_object, inner)

\* the Store<T> handle: a raw pointer to the inner object
NoStore == [state |-> "none", inner |-> 0]

Entries == [name : ExportNames, value : HostValues]

\* what Object.entries(instance.exports) yields: each name at most once
EntrySeqs ==
    {es \in UNION {[1..n -> Entries] : n \in 0..Cardinality(ExportNames)} :
        \A i, j \in DOMAIN es : i # j => es[i].name # es[j].name}

\* how the host answers the bridge calls of one Instance::new
HostBehaviours ==
    {[raise |-> r, entries |-> <<>>] : r \in {"ctor", "exports", "entries"}}
    \cup {[raise |-> "none", entries |-> es] : es \in EntrySeqs}

\* module.parsed().exports
ParsedExports == UNION {[S -> ExternTypes] : S \in SUBSET ExportNames}

ImportEntries ==
    {[module |-> k.module, name |-> k.name, ext |-> e] :
        k \in ImportKeys, e \in ImportExterns}
ImportSeqs == UNION {[1..n -> ImportEntries] : n \in 0..MaxImports}

NoICall == [parsed |-> EmptyMap, imports |-> <<>>,
            host |-> [raise |-> "none", entries |-> <<>>],
            before |-> Unallocated]
NoIRet == [st |-> "none", instance |-> NoInstance, err |-> "none",
           ctorCalled |-> FALSE, importsObject |-> EmptyObject]

InstanceNew(parsed, imports, host) ==
    LET r == Instance_new(heap[store.inner], parsed, imports, host) IN
    /\ store.state = "live"
    /\ frames = <<>>
    /\ heap' = [heap EXCEPT ![store.inner] = r.inner]
    /\ icall' = [parsed |-> parsed, imports |-> imports, host |-> host,
                 before |-> heap[store.inner]]
    /\ iret' = [st |-> r.st, instance |-> r.instance, err |-> r.err,
                ctorCalled |-> r.ctorCalled, importsObject |-> r.importsObject]
    /\ UNCHANGED <<convVars, tableVars, store, closures, hostFuncs, frames,
                   lastWrite, sret, externRefs>>

\* each run instantiates once
InstNext ==
    /\ iret.st = "none"
    /\ store.state = "live"
    /\ \E parsed \in ParsedExports, imports \in ImportSeqs, host \in HostBehaviours :
        InstanceNew(parsed, imports, host)

-----------------------------------------------------------------------------
(* The store.                                                              *)

\* number of stores created in one run
MaxStores == 2
\* number of host-defined functions created in one run
MaxFuncs == 2
\* deepest stack of re-entrant calls
MaxDepth == 3

NoWrite == [val |-> 0, depth |-> 0]
NoSeen == [val |-> 0, depth |-> -1]
NoSRet == [op |-> "none", st |-> "none", val |-> 0, func |-> 0]
SRet(op, st, val, func) == [op |-> op, st |-> st, val |-> val, func |-> func]

\* Store::from_inner: Box::into_raw of a fresh box
from_inner(addr) == [state |-> "live", inner |-> addr]

\* StoreContextMut::from_ref: a context is a reference to the inner object
StoreContextMut_from_ref(addr) == addr

\* a plausible slip: the context is made over another object
get_mut_Moved(s) == StoreContextMut_from_ref((s.inner % MaxStores) + 1)

\* Store::get_mut / AsContextMut for Store
get_mut(s) == StoreContextMut_from_ref(s.inner)

\* a plausible slip: the reborrow refers to another object
as_context_mut_Moved(ctx) == (ctx % MaxStores) + 1

\* AsContextMut for StoreContextMut: a reborrow of the same inner object
as_context_mut(ctx) == ctx

\* a plausible slip: the write rebuilds the inner object around the new state
data_mut_write_Rebuild(h, ctx, v) ==
    [h EXCEPT ![ctx] = StoreInner(h[ctx].instances, v, h[ctx].funcs)]

\* WasmStoreContextMut::data_mut followed by a write of v
data_mut_write(h, ctx, v) == [h EXCEPT ![ctx].data = v]

\* WasmStoreContext::data
data(h, ctx) == h[ctx].data

\* dropping the box drops the inner object and the closure records it owns
DropClosures(cl, inner) ==
    [i \in DOMAIN cl |-> IF i \in inner.funcs THEN [cl[i] EXCEPT !.state = "freed"]
                         ELSE cl[i]]

DRes(h, cl, s, val) == [heap |-> h, closures |-> cl, store |-> s, val |-> val]

\* a plausible slip: the handle's drop forgets the box
Store_drop_Leak(h, cl, s) ==
    DRes(h, cl, [s EXCEPT !.state = "dropped"], 0)

\* Drop for Store: drop(Box::from_raw(self.inner))
Store_drop(h, cl, s) ==
    DRes([h EXCEPT ![s.inner] = Dealloc(h[s.inner])],
         DropClosures(cl, h[s.inner]),
         [s EXCEPT !.state = "dropped"], 0)

\* a plausible slip: the handle is not forgotten, so its Drop runs after the
\* box was freed at the end of the scope
Store_into_data_NoForget(h, cl, s) ==
    DRes([h EXCEPT ![s.inner] = Dealloc(Dealloc(h[s.inner]))],
         DropClosures(cl, h[s.inner]),
         [s EXCEPT !.state = "dropped"], h[s.inner].data)

\* Store::into_data: the box is taken back, the handle forgotten, the data
\* moved out and the box freed at the end of the scope
Store_into_data(h, cl, s) ==
    DRes([h EXCEPT ![s.inner] = Dealloc(h[s.inner])],
         DropClosures(cl, h[s.inner]),
         [s EXCEPT !.state = "consumed"], h[s.inner].data)

FreeAddrs == {a \in 1..MaxStores : heap[a].state = "unalloc"}
Min(S) == CHOOSE x \in S : \A y \in S : x <= y

\* Store::new(engine, data)
StoreNew(d) ==
    /\ store.state # "live"
    /\ FreeAddrs # {}
    /\ LET a == Min(FreeAddrs) IN
         /\ heap' = [heap EXCEPT ![a] = StoreInner(<<>>, d, {})]
         /\ store' = from_inner(a)
    /\ lastWrite' = [val |-> d, depth |-> 0]
    /\ sret' = SRet("new", "ok", 0, 0)
    /\ UNCHANGED <<convVars, tableVars, instVars, externRefs, closures, hostFuncs, frames>>

\* Store::data_mut followed by a write
StoreDataMut(v) ==
    /\ store.state = "live"
    /\ frames = <<>>
    /\ heap' = data_mut_write(heap, get_mut(store), v)
    /\ lastWrite' = [val |-> v, depth |-> 0]
    /\ sret' = SRet("data_mut", "ok", 0, 0)
    /\ UNCHANGED <<convVars, tableVars, instVars, externRefs, store, closures, hostFuncs,
                   frames>>

\* dropping the Store
StoreDrop ==
    /\ store.state = "live"
    /\ frames = <<>>
    /\ LET r == Store_drop(heap, closures, store) IN
         /\ heap' = r.heap
         /\ closures' = r.closures
         /\ store' = r.store
    /\ sret' = SRet("drop", "ok", 0, 0)
    /\ UNCHANGED <<convVars, tableVars, instVars, externRefs, hostFuncs, frames, lastWrite>>

\* Store::into_data
StoreIntoData ==
    /\ store.state = "live"
    /\ frames = <<>>
    /\ LET r == Store_into_data(heap, closures, store) IN
         /\ heap' = r.heap
         /\ closures' = r.closures
         /\ store' = r.store
         /\ sret' = SRet("into_data", "ok", r.val, 0)
    /\ UNCHANGED <<convVars, tableVars, instVars, externRefs, hostFuncs, frames, lastWrite>>

\* Func::new: the closure is registered in the store, the host receives a
\* callable holding a non-owning reference to it
FuncNew ==
    /\ store.state = "live"
    /\ frames = <<>>
    /\ Len(closures) < MaxFuncs
    /\ LET id == Len(closures) + 1
           ctx == get_mut(store) IN
         /\ heap' = [heap EXCEPT ![ctx].funcs = @ \cup {id}]
         /\ closures' = Append(closures, [state |-> "live", owner |-> ctx])
         /\ hostFuncs' = Append(hostFuncs, [store |-> ctx, closure |-> id])
         /\ sret' = SRet("Func::new", "ok", 0, id)
    /\ UNCHANGED <<convVars, tableVars, instVars, externRefs, store, frames, lastWrite>>

\* number of ExternRefs made in one run
MaxExternRefs == 2
\* the native values ExternRefs carry
Payloads == {"p", "q"}
NoPayload == "none"

\* ExternRef::new(ctx, value): the value goes into the payload table of the
\* store behind ctx, the ExternRef holds its index
ExternRef_new(h, ctx, value) ==
    [heap |-> [h EXCEPT ![ctx].externs = Append(@, value)],
     ref |-> [store |-> ctx, index |-> Len(h[ctx].externs) + 1]]

\* ExternRef::downcast(ctx): a reference to the payload stored in ctx's store
ExternRef_downcast(h, ctx, r) ==
    IF r.store # ctx THEN [st |-> "CrossStore", val |-> NoPayload]
    ELSE [st |-> "ok", val |-> h[ctx].externs[r.index]]

\* ExternRef::new
ExternRefNew(value) ==
    /\ store.state = "live"
    /\ frames = <<>>
    /\ Len(externRefs) < MaxExternRefs
    /\ LET r == ExternRef_new(heap, get_mut(store), value) IN
         /\ heap' = r.heap
         /\ externRefs' = Append(externRefs,
                                 [store |-> r.ref.store, index |-> r.ref.index,
                                  payload |-> value, handle |-> "live",
                                  seen |-> NoPayload])
    /\ sret' = SRet("ExternRef::new", "ok", 0, Len(externRefs) + 1)
    /\ UNCHANGED <<convVars, tableVars, instVars, store, closures, hostFuncs,
                   frames, lastWrite>>

\* ExternRef::downcast with the live store's context
ExternRefDowncast(i) ==
    /\ store.state = "live"
    /\ frames = <<>>
    /\ i \in DOMAIN externRefs
    /\ externRefs[i].handle = "live"
    /\ LET r == ExternRef_downcast(heap, get_mut(store), externRefs[i]) IN
         /\ externRefs' = [externRefs EXCEPT ![i].seen = r.val]
         /\ sret' = SRet("downcast", r.st, 0, i)
    /\ UNCHANGED <<convVars, tableVars, instVars, heap, store, closures,
                   hostFuncs, frames, lastWrite>>

\* an ExternRef handle is dropped
ExternRefDrop(i) ==
    /\ frames = <<>>
    /\ i \in DOMAIN externRefs
    /\ externRefs[i].handle = "live"
    /\ externRefs' = [externRefs EXCEPT ![i].handle = "dropped"]
    /\ sret' = SRet("ExternRef drop", "ok", 0, i)
    /\ UNCHANGED <<convVars, tableVars, instVars, heap, store, closures,
                   hostFuncs, frames, lastWrite>>

ExternNext ==
    \/ \E value \in Payloads : ExternRefNew(value)
    \/ \E i \in 1..MaxExternRefs : ExternRefDowncast(i)
    \/ \E i \in 1..MaxExternRefs : ExternRefDrop(i)

Frame(kind, func, ctx) ==
    [kind |-> kind, func |-> func, ctx |-> ctx, pc |-> "entry", seen |-> NoSeen]

Top == frames[Len(frames)]
SetTop(f) == [frames EXCEPT ![Len(frames)] = f]

\* the caller of a host callable: host code outside any call, or the guest
\* inside an exported function
CanInvoke ==
    \/ frames = <<>>
    \/ /\ frames # <<>>
       /\ Len(frames) < MaxDepth
       /\ Top.kind = "export"
       /\ Top.pc = "entry"

Advance == IF frames = <<>> THEN frames ELSE SetTop([Top EXCEPT !.pc = "ret"])

\* the host callable of a host-defined function is invoked: the reference to
\* the closure is upgraded and a context over the store is rebuilt for it
HostInvoke(h) ==
    /\ CanInvoke
    /\ h \in DOMAIN hostFuncs
    /\ IF closures[hostFuncs[h].closure].state = "live"
       THEN /\ frames' = Append(Advance,
                             Frame("host", h,
                                   StoreContextMut_from_ref(hostFuncs[h].store)))
            /\ sret' = SRet("invoke", "ok", 0, h)
       ELSE /\ frames' = Advance
            /\ sret' = SRet("invoke", "StoreDropped", 0, h)
    /\ UNCHANGED <<convVars, tableVars, instVars, externRefs, heap, store, closures,
                   hostFuncs, lastWrite>>

\* an exported function is called from native code with the store's context
CallExport ==
    /\ store.state = "live"
    /\ frames = <<>>
    /\ frames' = <<Frame("export", 0, get_mut(store))>>
    /\ sret' = SRet("call", "ok", 0, 0)
    /\ UNCHANGED <<convVars, tableVars, instVars, externRefs, heap, store, closures,
                   hostFuncs, lastWrite>>

\* a host function writes the user state through its context
FrameWrite(v) ==
    /\ frames # <<>>
    /\ Top.kind = "host" /\ Top.pc = "entry"
    /\ heap' = data_mut_write(heap, Top.ctx, v)
    /\ lastWrite' = [val |-> v, depth |-> Len(frames)]
    /\ frames' = SetTop([Top EXCEPT !.pc = "body"])
    /\ sret' = SRet("data_mut", "ok", 0, Top.func)
    /\ UNCHANGED <<convVars, tableVars, instVars, externRefs, store, closures, hostFuncs>>

\* a host function that does not write
FrameNoWrite ==
    /\ frames # <<>>
    /\ Top.kind = "host" /\ Top.pc = "entry"
    /\ frames' = SetTop([Top EXCEPT !.pc = "body"])
    /\ sret' = SRet("none", "ok", 0, Top.func)
    /\ UNCHANGED <<convVars, tableVars, instVars, externRefs, heap, store, closures,
                   hostFuncs, lastWrite>>

\* a host function calls an exported function with a reborrow of its context
FrameCallExport ==
    /\ frames # <<>>
    /\ Top.kind = "host" /\ Top.pc = "body"
    /\ Len(frames) < MaxDepth
    /\ frames' = Append(SetTop([Top EXCEPT !.pc = "after"]),
                        Frame("export", 0, as_context_mut(Top.ctx)))
    /\ sret' = SRet("call", "ok", 0, Top.func)
    /\ UNCHANGED <<convVars, tableVars, instVars, externRefs, heap, store, closures,
                   hostFuncs, lastWrite>>

\* a host function that makes no call
FrameNoCall ==
    /\ frames # <<>>
    /\ Top.kind = "host" /\ Top.pc = "body"
    /\ frames' = SetTop([Top EXCEPT !.pc = "after"])
    /\ sret' = SRet("none", "ok", 0, Top.func)
    /\ UNCHANGED <<convVars, tableVars, instVars, externRefs, heap, store, closures,
                   hostFuncs, lastWrite>>

\* a host function reads the user state through its context
FrameRead ==
    /\ frames # <<>>
    /\ Top.kind = "host" /\ Top.pc = "after"
    /\ frames' = SetTop([Top EXCEPT !.pc = "ret",
                            !.seen = [val |-> data(heap, Top.ctx),
                                      depth |-> lastWrite.depth]])
    /\ sret' = SRet("data", "ok", data(heap, Top.ctx), Top.func)
    /\ UNCHANGED <<convVars, tableVars, instVars, externRefs, heap, store, closures,
                   hostFuncs, lastWrite>>

\* an exported function that calls no import
ExportNoCall ==
    /\ frames # <<>>
    /\ Top.kind = "export" /\ Top.pc = "entry"
    /\ frames' = SetTop([Top EXCEPT !.pc = "ret"])
    /\ sret' = SRet("none", "ok", 0, 0)
    /\ UNCHANGED <<convVars, tableVars, instVars, externRefs, heap, store, closures,
                   hostFuncs, lastWrite>>

\* the call on top of the stack returns
FrameReturn ==
    /\ frames # <<>>
    /\ Top.pc = "ret"
    /\ frames' = SubSeq(frames, 1, Len(frames) - 1)
    /\ sret' = SRet("return", "ok", 0, Top.func)
    /\ UNCHANGED <<convVars, tableVars, instVars, externRefs, heap, store, closures,
                   hostFuncs, lastWrite>>

\* the steps of the calls in progress
FrameStep ==
    \/ \E v \in DataVals : FrameWrite(v)
    \/ FrameNoWrite
    \/ FrameCallExport
    \/ FrameNoCall
    \/ FrameRead
    \/ ExportNoCall
    \/ FrameReturn
    \/ (frames # <<>> /\ \E h \in 1..MaxFuncs : HostInvoke(h))

StoreNext ==
    \/ \E d \in DataVals : StoreNew(d)
    \/ \E v \in DataVals : StoreDataMut(v)
    \/ StoreDrop
    \/ StoreIntoData
    \/ FuncNew
    \/ CallExport
    \/ (frames = <<>> /\ \E h \in 1..MaxFuncs : HostInvoke(h))
    \/ FrameStep

-----------------------------------------------------------------------------
(* Specifications.                                                         *)

ConvInit == conv = NoConv
TableInit == tbl = NoTable /\ tret = NoTRet
InstInit == icall = NoICall /\ iret = NoIRet
StoreInit ==
    /\ heap = [a \in 1..MaxStores |-> Unallocated]
    /\ store = NoStore
    /\ closures = <<>>
    /\ hostFuncs = <<>>
    /\ frames = <<>>
    /\ lastWrite = NoWrite
    /\ sret = NoSRet
    /\ externRefs = <<>>

Init == ConvInit /\ TableInit /\ InstInit /\ StoreInit

Next == ConvNext \/ TableNext \/ InstNext \/ StoreNext \/ ExternNext

Spec == Init /\ [][Next]_vars

\* the conversion layer on its own
ConvSpec == Init /\ [][ConvNext]_vars

\* one table driven through its operations
TableSpec == Init /\ [][TableNext]_vars

\* a store made by Store::new(engine, data), then an instantiation in it
InstSpecInit ==
    /\ ConvInit /\ TableInit /\ InstInit
    /\ \E d \in DataVals :
          heap = [a \in 1..MaxStores |->
                     IF a = 1 THEN StoreInner(<<>>, d, {}) ELSE Unallocated]
    /\ store = from_inner(1)
    /\ closures = <<>>
    /\ hostFuncs = <<>>
    /\ frames = <<>>
    /\ lastWrite = NoWrite
    /\ sret = NoSRet
    /\ externRefs = <<>>

InstSpec == InstSpecInit /\ [][InstNext]_vars

\* stores, host-defined functions and re-entrant calls
StoreSpec == Init /\ [][StoreNext]_vars

\* stores driven from native code outside any call, and the ExternRefs made
\* in them
ExternStoreNext ==
    \/ \E d \in DataVals : StoreNew(d)
    \/ \E v \in DataVals : StoreDataMut(v)
    \/ StoreDrop
    \/ StoreIntoData
    \/ ExternNext

ExternSpec == Init /\ [][ExternStoreNext]_vars

\* a call in progress keeps running: the single thread executes it to its end
StoreFairSpec == StoreSpec /\ WF_vars(FrameStep)

-----------------------------------------------------------------------------
(* Properties of instantiation.                                            *)

Exports == iret.instance.exports

\* C1: after a successful Instance::new every entry of the export map has the
\* Extern variant and the type module.parsed.exports records for its name,
\* and every name the host reported is in the map.
C1_ExportsCarryParsedType ==
    iret.st = "ok" =>
        /\ \A n \in DOMAIN Exports :
              /\ n \in DOMAIN icall.parsed
              /\ Exports[n].kind = icall.parsed[n].kind
              /\ Exports[n].ty = icall.parsed[n]
        /\ \A i \in DOMAIN icall.host.entries :
              icall.host.entries[i].name \in DOMAIN Exports

\* C1 witness: a successful instantiation with a table and a memory export
C1_Witness ==
    /\ iret.st = "ok"
    /\ DOMAIN Exports = ExportNames
    /\ Exports["a"].kind = "Table"
    /\ Exports["b"].kind = "Memory"

HasDuplicateImport(imports) ==
    \E i, j \in DOMAIN imports :
        /\ i # j
        /\ imports[i].module = imports[j].module
        /\ imports[i].name = imports[j].name

InstanceTable == heap[store.inner].instances

\* C3: after a successful Instance::new the store's instance table holds one
\* more record than before, the record of the returned instance; otherwise
\* the table is as it was.
C3_InstanceRegistered ==
    iret.st # "none" =>
        IF iret.st = "ok"
        THEN /\ Len(InstanceTable) = Len(icall.before.instances) + 1
             /\ InstanceTable[Len(InstanceTable)] = iret.instance
        ELSE InstanceTable = icall.before.instances

\* the conversion of the i-th reported export returns an error value after
\* every earlier export was converted
ConversionFailsAt(i) ==
    LET es == icall.host.entries IN
    /\ i \in DOMAIN es
    /\ \A j \in 1..i :
          es[j].name \in DOMAIN icall.parsed
    /\ \A j \in 1..(i - 1) :
          ConvertExport(es[j].value, icall.parsed[es[j].name]).st = "ok"
    /\ ConvertExport(es[i].value, icall.parsed[es[i].name]).st = "err"

StepFails ==
    \/ icall.host.raise # "none"
    \/ \E i \in DOMAIN icall.host.entries : ConversionFailsAt(i)

\* C4: when the host constructor raises, reading the exports fails or the
\* conversion of an export fails, Instance::new returns an error and no
\* Instance, and the store (instance table and user state) is as before the
\* call, also when earlier exports had been converted.
C4_FailureLeavesStore ==
    iret.st # "none" =>
        /\ StepFails => iret.st = "err"
        /\ iret.st = "err" =>
              /\ iret.instance = NoInstance
              /\ heap[store.inner] = icall.before

\* C4 witness: the second export fails to convert after the first succeeded
C4_Witness ==
    /\ iret.st = "err"
    /\ ConversionFailsAt(2)
    /\ iret.instance = NoInstance
    /\ heap[store.inner] = icall.before

-----------------------------------------------------------------------------
(* Properties of tables.                                                   *)

\* the step is a Table operation named op on a live table
TableStep(op) == tbl.live /\ tret'.op = op

\* C5: on a table of length n, get(index) with index >= n returns None, and
\* set(index, value) with index >= n returns an error (the host's RangeError
\* when the value is one the table can hold) and leaves the table as it was.
C5_OutOfRange ==
    [][/\ (TableStep("get") /\ tret'.index >= Len(tbl.host.elems)) =>
              (tret'.st = "ok" /\ tret'.opt = None)
       /\ (TableStep("set") /\ tret'.index >= Len(tbl.host.elems)) =>
              /\ tret'.st = "err"
              /\ tbl'.host = tbl.host
              /\ HostAccepts(tbl.host.element, Value_to_py(tret'.value)) =>
                    tret'.err = "RangeError"]_vars

\* C5 witness: an out-of-range set on a non-empty table was refused
C5_Witness ==
    /\ tbl.live
    /\ tret.op = "set"
    /\ Len(tbl.host.elems) > 0
    /\ tret.index >= Len(tbl.host.elems)
    /\ tret.st = "err"
    /\ tret.err = "RangeError"

\* C6: on a funcref table of length previous with declared maximum max,
\* grow(k, init) with a funcref init returns previous and leaves the size at
\* previous + k when previous + k <= max; otherwise it returns an error and
\* the size is still previous.
C6_GrowWithinMaximum ==
    [][(/\ TableStep("grow")
        /\ tbl.ty.element = "FuncRef"
        /\ tbl.ty.max # NoMax
        /\ tret'.value.tag = "FuncRef") =>
          LET previous == Len(tbl.host.elems)
              k == tret'.delta
          IN  IF previous + k <= tbl.ty.max
              THEN /\ tret'.st = "ok"
                   /\ tret'.n = previous
                   /\ Table_size(tbl'.host).n = previous + k
              ELSE /\ tret'.st = "err"
                   /\ Table_size(tbl'.host).n = previous]_vars

\* C6 witness: a non-empty funcref table with a maximum has grown
C6_Witness ==
    /\ tbl.live
    /\ tbl.ty.element = "FuncRef"
    /\ tbl.ty.max # NoMax
    /\ tret.op = "grow"
    /\ tret.st = "ok"
    /\ tret.delta > 0
    /\ tret.n > 0
    /\ Len(tbl.host.elems) = tret.n + tret.delta

-----------------------------------------------------------------------------
(* Properties of the conversion layer.                                     *)

\* C7: a numeric value converted by to_py and back by from_py_typed against
\* its own type comes back as the same value.
C7_NumericRoundTrip ==
    (/\ conv.op = "from_py_typed"
     /\ conv.src.tag \in NumericTypes
     /\ conv.ty = ty(conv.src)) =>
        conv.res = Ok(conv.src)

\* C7 witness: a 64-bit integer outside the 32-bit range made the round trip
C7_Witness ==
    /\ conv.op = "from_py_typed"
    /\ conv.src = Val("I64", I64Max)
    /\ conv.ty = "I64"
    /\ conv.res = Ok(conv.src)

\* C8: from_py_typed against FuncRef or ExternRef returns an error for every
\* object, null included, and never yields a reference value; against a
\* numeric type it returns an error exactly when the object cannot be
\* extracted as that type.
C8_NoReferenceConversion ==
    conv.op = "from_py_typed" =>
        /\ conv.ty \in {"FuncRef", "ExternRef"} => conv.res.st = "err"
        /\ conv.res.val.tag \notin {"FuncRef", "ExternRef"}
        /\ conv.ty \in NumericTypes =>
              (conv.res.st = "err" <=> ~Extractable(conv.obj, conv.ty))

\* C8 witness: null against FuncRef was refused
C8_Witness ==
    /\ conv.op = "from_py_typed"
    /\ conv.obj = PyNone
    /\ conv.ty = "FuncRef"
    /\ conv.res.st = "err"

-----------------------------------------------------------------------------
(* Properties of the store.                                                *)

\* every active frame's context refers to the inner object of the live store
FramesShareInner ==
    \A i \in DOMAIN frames :
        /\ store.state = "live"
        /\ frames[i].ctx = store.inner
        /\ heap[frames[i].ctx].state = "live"

\* a host function that has just read the user state has read the value of
\* the most recent write, whichever frame made it
ReadSeesLastWrite ==
    (frames # <<>> /\ Top.kind = "host" /\ Top.pc = "ret") =>
        Top.seen.val = lastWrite.val

\* C9: in a re-entrant chain on one store (host function A calls exported B,
\* which calls imported host function C) every frame's context refers to the
\* same inner object, a write to the user state made in C is what A reads
\* after B returns, and every call in progress runs to completion.
C9_ReentrantChain ==
    /\ [](FramesShareInner /\ ReadSeesLastWrite)
    /\ (frames # <<>>) ~> (frames = <<>>)

\* C9 witness: B and C have returned and A has read what C wrote at depth 3
C9_Witness ==
    /\ Len(frames) = 1
    /\ Top.kind = "host"
    /\ Top.pc = "ret"
    /\ Top.seen.depth = 3
    /\ lastWrite.depth = 3
    /\ Top.seen.val = lastWrite.val
    /\ Top.seen.val = 1

\* a closure is allocated only while the store it was registered in is live
ClosuresFreedWithStore ==
    \A i \in DOMAIN closures :
        closures[i].state = "live" =>
            (store.state = "live" /\ closures[i].owner = store.inner)

\* the step invokes a host callable whose store has been dropped
InvokesAfterDrop ==
    /\ sret'.op = "invoke"
    /\ sret'.func \in DOMAIN hostFuncs
    /\ (store.state # "live" \/ hostFuncs[sret'.func].store # store.inner)

-----------------------------------------------------------------------------
(* C12, C13, C16: tables and the host's exceptions.                        *)

\* the exception the host raises in the step's call, "none" if it raises none
HostRaises ==
    CASE tret'.op = "grow" ->
           HostTableGrow(tbl.host, tret'.delta, Value_to_py(tret'.value)).exc
      [] tret'.op = "get" -> HostTableGet(tbl.host, tret'.index).exc
      [] tret'.op = "set" ->
           HostTableSet(tbl.host, tret'.index, Value_to_py(tret'.value)).exc
      [] OTHER -> "none"

TableOps == {"size", "grow", "get", "set"}

C13_GetInRange ==
    (tbl.live /\ tret.op = "get" /\ tret.index < Len(tbl.host.elems)) =>
        /\ tret.st = "ok"
        /\ tret.opt.some
        /\ ty(tret.opt.v) = tbl.ty.element

\* C16: from_exported_table returns a Table only when the host value is a
\* WebAssembly.Table, its length is at least the declared minimum and the
\* declared element type is funcref; a value of another class yields an
\* error value, a violated length or element-type condition a panic.
C16_FromExportedTable ==
    tret.op = "from_exported_table" =>
        LET isTable == tret.obj.class = "Table"
            fits == tret.obj.len >= tret.decl.min
            funcref == tret.decl.element = "FuncRef"
        IN  /\ tret.st = "ok" <=> (isTable /\ fits /\ funcref)
            /\ tret.st = "ok" =>
                  (tbl.live /\ tbl.ty = tret.decl
                   /\ Len(tbl.host.elems) = tret.obj.len)
            /\ ~isTable => tret.st = "err"
            /\ (isTable /\ ~(fits /\ funcref)) => tret.st = "panic"
            /\ tret.st # "ok" => ~tbl.live

\* C16 witness: a funcref table longer than its declared minimum was
\* accepted
C16_Witness ==
    /\ tret.op = "from_exported_table"
    /\ tret.st = "ok"
    /\ tret.decl.min > 0
    /\ tret.obj.len > tret.decl.min
    /\ tbl.live

-----------------------------------------------------------------------------
(* C14: the imports object.                                                *)

\* the orders a collection of imports can be iterated in
Reorderings(imports) ==
    {[k \in DOMAIN imports |-> imports[p[k]]] :
        p \in {q \in [DOMAIN imports -> DOMAIN imports] :
                  \A a, b \in DOMAIN imports : a # b => q[a] # q[b]}}

\* object[module_name][item_name] is the foreign value of every given import
HoldsEveryImport(object, imports) ==
    \A i \in DOMAIN imports :
        /\ imports[i].module \in DOMAIN object
        /\ imports[i].name \in DOMAIN object[imports[i].module]
        /\ object[imports[i].module][imports[i].name] = Extern_to_py(imports[i].ext)

\* every outer and inner key of the object comes from a given import
OnlyGivenKeys(object, imports) ==
    /\ \A m \in DOMAIN object : \E i \in DOMAIN imports : imports[i].module = m
    /\ \A m \in DOMAIN object : \A n \in DOMAIN object[m] :
          \E i \in DOMAIN imports :
              imports[i].module = m /\ imports[i].name = n

C14_DistinctImportsObject ==
    (iret.ctorCalled /\ ~HasDuplicateImport(icall.imports)) =>
        /\ HoldsEveryImport(iret.importsObject, icall.imports)
        /\ OnlyGivenKeys(iret.importsObject, icall.imports)
        /\ \A other \in Reorderings(icall.imports) :
              create_imports_object(other) = iret.importsObject

-----------------------------------------------------------------------------
(* C11, C15: what the store owns, and its deallocation.                    *)

\* the store the ExternRef was made in has not been dropped or consumed
OwnerLive(r) == store.state = "live" /\ store.inner = r.store

StoreEnds == store.state = "live" /\ store'.state \in {"dropped", "consumed"}

\* C15: from Store::new to drop or into_data the inner object stays at one
\* address, it is deallocated exactly once, nothing touches it afterwards,
\* and into_data returns the current user state without running Drop.
C15_StoreLifecycle ==
    [][/\ \A a \in DOMAIN heap : heap'[a].frees <= 1
       /\ \A a \in DOMAIN heap : heap[a].state = "freed" => heap'[a] = heap[a]
       /\ \A i \in DOMAIN frames' : heap'[frames'[i].ctx].state = "live"
       /\ store'.state = "live" =>
              (heap'[store'.inner].state = "live" /\ heap'[store'.inner].frees = 0)
       /\ (store.state = "live" /\ store'.state = "live") =>
              store'.inner = store.inner
       /\ StoreEnds =>
              /\ store'.inner = store.inner
              /\ heap'[store.inner].state = "freed"
              /\ heap'[store.inner].frees = 1
       /\ (StoreEnds /\ sret'.op = "into_data") =>
              /\ sret'.val = lastWrite.val
              /\ sret'.val = heap[store.inner].data
              /\ store'.state = "consumed"]_vars

\* C15 witness: a second store, whose user state a host function wrote, was
\* consumed by into_data, which returned the written state
C15_Witness ==
    /\ store.state = "consumed"
    /\ store.inner = 2
    /\ sret.op = "into_data"
    /\ sret.val = 1
    /\ lastWrite.val = 1
    /\ lastWrite.depth > 0
    /\ heap[1].frees = 1
    /\ heap[2].frees = 1

====
